---------------------------- MODULE Spec2Model ----------------------------
(***************************************************************************)
(* A model of the streaming QOI decoder of qoi-image-viewer (worker.js:    *)
(* parseQoiHeaderBytes and getQoiPixelData), of the worker's message       *)
(* handler that runs it, and of the page script that feeds the worker      *)
(* (main.js).                                                              *)
(*                                                                         *)
(* Typed arrays are functions over 0..n-1, as in the source; byte streams  *)
(* handed to the decoder (files, chunks) are sequences.  Numbers are the   *)
(* 32-bit integers the JavaScript bit operators produce.  The diagnostic   *)
(* `log` array of the source is write-only and is left out.                *)
(***************************************************************************)
EXTENDS Integers, Sequences, FiniteSets, TLC

VARIABLES
    file,    \* the bytes of the Blob posted to the worker (event.data)
    pos,     \* number of bytes of `file` the reader has delivered so far
    dec,     \* the local variables of the running getQoiPixelData call
    pc,      \* "reading" | "returned" | "rejected": state of the async call
    splits,  \* history: what the chunk boundaries so far have cut in two
    buffer,  \* argument of a direct parseQoiHeaderBytes call
    header,  \* what that call returned or threw
    queue,   \* files main.js has posted, not yet delivered to the worker
    calls,   \* the invocations of the worker's message handler, in order
    debugLogUrl,  \* the worker's module variable: the call whose log it names
    inbox,   \* bitmaps the worker has posted, not yet delivered to main.js
    canvas,  \* the canvas of main.js: its size and what is painted on it
    worker,  \* how far the worker's script got, and the messages nobody heard
    context  \* what canvas.getContext("bitmaprenderer") returned to main.js

workerVars == <<queue, calls, debugLogUrl, inbox, canvas, worker, context>>

vars == <<file, pos, dec, pc, splits, buffer, header,
          queue, calls, debugLogUrl, inbox, canvas, worker, context>>

-----------------------------------------------------------------------------
(* JavaScript numbers and typed arrays *)

Byte == 0..255

Min(a, b) == IF a < b THEN a ELSE b
Max(a, b) == IF a > b THEN a ELSE b

\* a & b on 32-bit integers (two's complement, bit by bit)
RECURSIVE BitAnd(_, _)
BitAnd(a, b) ==
    IF a = 0 \/ b = 0 THEN 0
    ELSE IF a = -1 THEN b
    ELSE IF b = -1 THEN a
    ELSE (a % 2) * (b % 2) + 2 * BitAnd(a \div 2, b \div 2)

\* a | b on 32-bit integers
RECURSIVE BitOr(_, _)
BitOr(a, b) ==
    IF a = 0 THEN b
    ELSE IF b = 0 THEN a
    ELSE IF a = -1 \/ b = -1 THEN -1
    ELSE Max(a % 2, b % 2) + 2 * BitOr(a \div 2, b \div 2)

\* a << n on 32-bit integers: bit 31 is dropped, bit 30 becomes the sign
RECURSIVE ShiftLeft(_, _)
ShiftLeft(a, n) ==
    IF n = 0 THEN a
    ELSE LET low30 == a % 1073741824
             bit30 == (a \div 1073741824) % 2
         IN ShiftLeft(IF bit30 = 1 THEN (low30 - 1073741824) * 2
                                   ELSE low30 * 2, n - 1)

\* a >> n (sign-propagating)
RECURSIVE ShiftRight(_, _)
ShiftRight(a, n) == IF n = 0 THEN a ELSE ShiftRight(a \div 2, n - 1)

\* the conversion a Uint8ClampedArray applies to an integer stored in it
ToUint8Clamp(v) == Max(0, Min(255, v))

\* new Uint8ClampedArray(n): n zero bytes
NewArray(n) == [i \in 0..(n - 1) |-> 0]

\* new Uint8Array([...]) from a list of bytes
ArrayOf(s) == [i \in 0..(Len(s) - 1) |-> s[i + 1]]

ArrayLength(a) == Cardinality(DOMAIN a)

\* target.set(source, offset), when it does not throw: the elements of
\* source from index i on are copied to target[offset + i]
RECURSIVE CopyFrom(_, _, _, _)
CopyFrom(target, source, offset, i) ==
    IF i >= ArrayLength(source) THEN target
    ELSE CopyFrom([target EXCEPT ![offset + i] = source[i]],
                  source, offset, i + 1)

TypedArraySet(target, source, offset) == CopyFrom(target, source, offset, 0)

\* target.set(source, offset) throws a RangeError unless the source fits
SetFits(target, source, offset) ==
    offset + ArrayLength(source) <= ArrayLength(target)

\* array.slice(from, to)
ArraySlice(a, from, to) == [i \in 0..(to - from - 1) |-> a[from + i]]

-----------------------------------------------------------------------------
(* Constants of the decoder *)

QOI_HEADER_MAGIC == ArrayOf(<<113, 111, 105, 102>>)   \* "qoif"
QOI_HEADER_SIZE == ArrayLength(QOI_HEADER_MAGIC) + (32 + 32 + 8 + 8) \div 8

CHANNELS_RGB == 3
CHANNELS_RGBA == 4
SUPPORTED_CHANNEL_MODES == {CHANNELS_RGB, CHANNELS_RGBA}

COLORSPACE_SRGB == 0
COLORSPACE_LINEAR == 1
SUPPORTED_COLORSPACE_MODES == {COLORSPACE_SRGB, COLORSPACE_LINEAR}

OP_RGB_BITS == 254
OP_RGBA_BITS == 255
OP_INDEX_BITS == 0
OP_DIFF_BITS == 64
OP_LUMA_BITS == 128
OP_RUN_BITS == 192

OP_NONE_ID == -1
OP_HEAD_ID == -2
OP_RGB_ID == 1
OP_RGBA_ID == 2
OP_INDEX_ID == 3
OP_DIFF_ID == 4
OP_LUMA_ID == 5
OP_RUN_ID == 6

INDEX_ARRAY_SIZE == 64

NoError == ""
MagicMismatch == "QOI header magic bytes do not match"
ChannelsMismatch == "Unrecognised channels mode in header"
ColorspaceMismatch == "Unrecognised colorsace mode in header"
TrailerMismatch == "Trailer bytes mismatch"
InvalidArrayLength == "RangeError: Invalid typed array length"
OffsetOutOfBounds == "RangeError: offset is out of bounds"

-----------------------------------------------------------------------------
(* parseQoiHeaderBytes *)

\* (buffer[k] << 24) | (buffer[k+1] << 16) | (buffer[k+2] << 8) | buffer[k+3]
ReadInt32(b, k) ==
    BitOr(BitOr(BitOr(ShiftLeft(b[k], 24), ShiftLeft(b[k + 1], 16)),
                ShiftLeft(b[k + 2], 8)), b[k + 3])

\* An array object is truthy in JavaScript, whatever it holds.
Truthy(array) == TRUE

\* `if (!SUPPORTED_COLORSPACE_MODES)`: the test of the list itself
ColorspaceRejected(colorspace) == ~Truthy(SUPPORTED_COLORSPACE_MODES)

parseQoiHeaderBytes(b) ==
    LET width == ReadInt32(b, 4)
        height == ReadInt32(b, 8)
        channels == b[12]
        colorspace == b[13]
        fields == [width |-> width, height |-> height,
                   channels |-> channels, colorspace |-> colorspace]
        Thrown(msg) == [thrown |-> msg, width |-> 0, height |-> 0,
                        channels |-> 0, colorspace |-> 0]
    IN IF ~(\A i \in DOMAIN QOI_HEADER_MAGIC : b[i] = QOI_HEADER_MAGIC[i])
       THEN Thrown(MagicMismatch)
       ELSE IF channels \notin SUPPORTED_CHANNEL_MODES
       THEN Thrown(ChannelsMismatch)
       ELSE IF ColorspaceRejected(colorspace)
       THEN Thrown(ColorspaceMismatch)
       ELSE [thrown |-> NoError] @@ fields

-----------------------------------------------------------------------------
(* getQoiPixelData: the state of one decode session *)

\* The locals of getQoiPixelData after lines 67-89.  width, height, channels,
\* colorspace and pixels are undefined in the source until seenHeader is set;
\* here they hold 0 and the empty array until then.  `thrown` is the message
\* of the exception that ended the call, NoError while it runs.
InitialDecoder ==
    [seenHeader |-> FALSE,
     headerBuffer |-> NewArray(QOI_HEADER_SIZE),
     headerBufferOffset |-> 0,
     width |-> 0, height |-> 0, channels |-> 0, colorspace |-> 0,
     pixels |-> NewArray(0),
     pixelOffset |-> 0,
     lastPixel |-> ArrayOf(<<0, 0, 0, 255>>),
     indexValues |-> NewArray(INDEX_ARRAY_SIZE * 4),
     op |-> OP_HEAD_ID,
     opBuffer |-> NewArray(4),
     opOffset |-> 0,
     thrown |-> NoError]

Throw(d, msg) == [d EXCEPT !.thrown = msg]

\* The longest typed array the engine allocates, in pixels of 4 bytes: V8
\* (node 20) throws a RangeError for more than 2^32 bytes.
MaxTypedArrayPixels == 1073741824

\* |v| for a 32-bit integer; |-2^31| is not one and is taken as 2^31 - 1,
\* which is on the same side of every comparison made with it below
Magnitude(v) ==
    IF v >= 0 THEN v
    ELSE IF v = -2147483647 - 1 THEN 2147483647
    ELSE -v

\* new Uint8ClampedArray(width * height * 4) throws a RangeError when the
\* product is negative and when it exceeds the engine's longest typed array.
\* The product is a double in the source and is not computed here.
AllocationFails(width, height) ==
    LET w == Magnitude(width)
        h == Magnitude(height)
    IN /\ w # 0
       /\ h # 0
       /\ \/ (width < 0) # (height < 0)
          \/ h > MaxTypedArrayPixels \div w

\* lines 106-121: one byte of the header
HeaderByte(d, byte) ==
    LET hb == [d.headerBuffer EXCEPT ![d.headerBufferOffset] = byte]
        d1 == [d EXCEPT !.headerBuffer = hb,
                        !.headerBufferOffset = d.headerBufferOffset + 1]
        h == parseQoiHeaderBytes(hb)
        length == h.width * h.height * 4
    IN IF d1.headerBufferOffset # 14 THEN d1
       ELSE IF h.thrown # NoError THEN Throw(d1, h.thrown)
       ELSE IF AllocationFails(h.width, h.height)
       THEN Throw([d1 EXCEPT !.width = h.width, !.height = h.height,
                             !.channels = h.channels,
                             !.colorspace = h.colorspace,
                             !.seenHeader = TRUE], InvalidArrayLength)
       ELSE [d1 EXCEPT !.width = h.width, !.height = h.height,
                       !.channels = h.channels, !.colorspace = h.colorspace,
                       !.seenHeader = TRUE,
                       !.pixels = NewArray(length),
                       !.op = OP_NONE_ID]

\* As TrailerRejects, without the test for bytes after the eighth.
TrailerRejectsNoLimit(trailerOffset, byte) ==
    \/ (trailerOffset < 7 /\ byte # 0)
    \/ (trailerOffset = 7 /\ byte # 1)

\* lines 126-130: the test that rejects a trailer byte
TrailerRejects(trailerOffset, byte) ==
    \/ (trailerOffset < 7 /\ byte # 0)
    \/ (trailerOffset = 7 /\ byte # 1)
    \/ trailerOffset > 7

\* lines 123-138: one byte after the pixel buffer is full
TrailerByte(d, byte) ==
    LET trailerOffset == d.pixelOffset - ArrayLength(d.pixels)
    IN IF TrailerRejects(trailerOffset, byte)
       THEN Throw(d, TrailerMismatch)
       ELSE [d EXCEPT !.pixelOffset = d.pixelOffset + 1]

\* As SelectOp, without the tests for the RGB and RGBA bytes: every tag is
\* classified by its top two bits.
SelectOpTwoBitsOnly(op, byte) ==
    IF op # OP_NONE_ID THEN op
    ELSE LET twoBitTag == BitAnd(byte, 192)
         IN IF twoBitTag = OP_INDEX_BITS THEN OP_INDEX_ID
            ELSE IF twoBitTag = OP_DIFF_BITS THEN OP_DIFF_ID
            ELSE IF twoBitTag = OP_LUMA_BITS THEN OP_LUMA_ID
            ELSE OP_RUN_ID

\* lines 140-151: the opcode a byte selects when none is in progress
SelectOp(op, byte) ==
    IF op # OP_NONE_ID THEN op
    ELSE LET op1 == IF byte = OP_RGB_BITS THEN OP_RGB_ID ELSE op
             op2 == IF byte = OP_RGBA_BITS THEN OP_RGBA_ID ELSE op1
             twoBitTag == BitAnd(byte, 192)
             op3 == IF twoBitTag = OP_INDEX_BITS THEN OP_INDEX_ID ELSE op2
             op4 == IF twoBitTag = OP_DIFF_BITS THEN OP_DIFF_ID ELSE op3
             op5 == IF twoBitTag = OP_LUMA_BITS THEN OP_LUMA_ID ELSE op4
             op6 == IF twoBitTag = OP_RUN_BITS THEN OP_RUN_ID ELSE op5
         IN IF op2 # OP_NONE_ID THEN op2 ELSE op6

\* As EmitPixel, without `pixelOffset += 4`: every pixel is written at the
\* same offset.
EmitPixelInPlace(d) ==
    IF ~SetFits(d.pixels, d.lastPixel, d.pixelOffset)
    THEN Throw(d, OffsetOutOfBounds)
    ELSE [d EXCEPT !.pixels = TypedArraySet(d.pixels, d.lastPixel,
                                            d.pixelOffset)]

\* pixels.set(lastPixel, pixelOffset); pixelOffset += 4
EmitPixel(d) ==
    IF ~SetFits(d.pixels, d.lastPixel, d.pixelOffset)
    THEN Throw(d, OffsetOutOfBounds)
    ELSE [d EXCEPT !.pixels = TypedArraySet(d.pixels, d.lastPixel,
                                            d.pixelOffset),
                   !.pixelOffset = d.pixelOffset + 4]

\* As CacheIndex, with the alpha term of the hash left out.
CacheIndexNoAlpha(p) == (p[0] * 3 + p[1] * 5 + p[2] * 7) % 64

\* lines 242-248: the slot of the color cache a pixel is stored in
CacheIndex(p) == (p[0] * 3 + p[1] * 5 + p[2] * 7 + p[3] * 11) % 64

\* As StoreAndReset, with the slot number used as the byte offset of the
\* store, without `<< 2`.
StoreAndResetUnshifted(d) ==
    IF d.thrown # NoError THEN d
    ELSE LET index == CacheIndex(d.lastPixel)
         IN [d EXCEPT !.indexValues = TypedArraySet(d.indexValues, d.lastPixel,
                                                    index),
                      !.op = OP_NONE_ID,
                      !.opBuffer = NewArray(4),
                      !.opOffset = 0]

\* lines 242-256: store lastPixel in the color cache, reset the opcode state
StoreAndReset(d) ==
    IF d.thrown # NoError THEN d
    ELSE LET index == CacheIndex(d.lastPixel)
         IN [d EXCEPT !.indexValues = TypedArraySet(d.indexValues, d.lastPixel,
                                                    ShiftLeft(index, 2)),
                      !.op = OP_NONE_ID,
                      !.opBuffer = NewArray(4),
                      !.opOffset = 0]

\* As CollectByte, with every data byte stored in opBuffer[0].
CollectByteFirstSlot(d, byte) ==
    [d EXCEPT !.opBuffer = IF d.opOffset > 0
                           THEN [d.opBuffer EXCEPT ![0] = ToUint8Clamp(byte)]
                           ELSE d.opBuffer,
              !.opOffset = d.opOffset + 1]

\* `if (opOffset > 0) opBuffer[opOffset - 1] = byte; opOffset++`
CollectByte(d, byte) ==
    [d EXCEPT !.opBuffer = IF d.opOffset > 0
                           THEN [d.opBuffer EXCEPT ![d.opOffset - 1] =
                                                        ToUint8Clamp(byte)]
                           ELSE d.opBuffer,
              !.opOffset = d.opOffset + 1]

\* As OpRgb, without `opBuffer[3] = lastPixel[3]`.
OpRgbDropsAlpha(d, byte) ==
    LET d1 == CollectByte(d, byte)
    IN IF d1.opOffset <= 3 THEN d1
       ELSE StoreAndReset(EmitPixel(
                [d1 EXCEPT !.lastPixel =
                               TypedArraySet(d1.lastPixel, d1.opBuffer, 0)]))

\* lines 153-166
OpRgb(d, byte) ==
    LET d1 == CollectByte(d, byte)
        buf == [d1.opBuffer EXCEPT ![3] = d1.lastPixel[3]]
    IN IF d1.opOffset <= 3 THEN d1
       ELSE StoreAndReset(EmitPixel(
                [d1 EXCEPT !.opBuffer = buf,
                           !.lastPixel = TypedArraySet(d1.lastPixel, buf, 0)]))

\* As OpRgba, with `opOffset <= 3` for `opOffset <= 4`: the pixel is emitted
\* after three data bytes.
OpRgbaThreeBytes(d, byte) ==
    LET d1 == CollectByte(d, byte)
    IN IF d1.opOffset <= 3 THEN d1
       ELSE StoreAndReset(EmitPixel(
                [d1 EXCEPT !.lastPixel =
                               TypedArraySet(d1.lastPixel, d1.opBuffer, 0)]))

\* lines 168-180
OpRgba(d, byte) ==
    LET d1 == CollectByte(d, byte)
    IN IF d1.opOffset <= 4 THEN d1
       ELSE StoreAndReset(EmitPixel(
                [d1 EXCEPT !.lastPixel =
                               TypedArraySet(d1.lastPixel, d1.opBuffer, 0)]))

\* As OpIndex, with the slot number used as the byte offset, without `<< 2`.
OpIndexNoShift(d, byte) ==
    LET index == BitAnd(byte, 63)
    IN StoreAndReset(EmitPixel(
           [d EXCEPT !.lastPixel =
                TypedArraySet(d.lastPixel,
                              ArraySlice(d.indexValues, index, index + 4), 0)]))

\* lines 182-190
OpIndex(d, byte) ==
    LET index == ShiftLeft(BitAnd(byte, 63), 2)
    IN StoreAndReset(EmitPixel(
           [d EXCEPT !.lastPixel =
                TypedArraySet(d.lastPixel,
                              ArraySlice(d.indexValues, index, index + 4), 0)]))

\* As AddDiff, without the mask: the sum is stored as it is, and clamped.
AddDiffClamped(channel, diff) == ToUint8Clamp(channel + diff)

\* `lastPixel[i] = ((lastPixel[i] + diff) | 0x100) & 0xff`
AddDiff(channel, diff) == ToUint8Clamp(BitAnd(BitOr(channel + diff, 256), 255))

\* lastPixel after the three channel assignments of OP_DIFF and OP_LUMA
ApplyDiff(p, diffRed, diffGreen, diffBlue) ==
    [p EXCEPT ![0] = AddDiff(p[0], diffRed),
              ![1] = AddDiff(p[1], diffGreen),
              ![2] = AddDiff(p[2], diffBlue)]

\* lines 192-205
OpDiff(d, byte) ==
    LET diffRed == -2 + ShiftRight(BitAnd(byte, 48), 4)
        diffGreen == -2 + ShiftRight(BitAnd(byte, 12), 2)
        diffBlue == -2 + BitAnd(byte, 3)
    IN StoreAndReset(EmitPixel(
           [d EXCEPT !.lastPixel =
                ApplyDiff(d.lastPixel, diffRed, diffGreen, diffBlue)]))

\* As OpLuma, with the first byte kept whole, without `& 0b00111111`.
OpLumaUnmasked(d, byte) ==
    LET diffGreen == -32 + d.opBuffer[0]
        diffRed == diffGreen + (-8 + ShiftRight(BitAnd(byte, 240), 4))
        diffBlue == diffGreen + (-8 + BitAnd(byte, 15))
    IN IF d.opOffset = 0
       THEN [d EXCEPT !.opBuffer = [d.opBuffer EXCEPT ![0] =
                                         ToUint8Clamp(byte)],
                      !.opOffset = d.opOffset + 1]
       ELSE StoreAndReset(EmitPixel(
                [d EXCEPT !.lastPixel =
                     ApplyDiff(d.lastPixel, diffRed, diffGreen, diffBlue)]))

\* lines 207-227
OpLuma(d, byte) ==
    LET diffGreen == -32 + d.opBuffer[0]
        diffRed == diffGreen + (-8 + ShiftRight(BitAnd(byte, 240), 4))
        diffBlue == diffGreen + (-8 + BitAnd(byte, 15))
    IN IF d.opOffset = 0
       THEN [d EXCEPT !.opBuffer = [d.opBuffer EXCEPT ![0] =
                                         ToUint8Clamp(BitAnd(byte, 63))],
                      !.opOffset = d.opOffset + 1]
       ELSE StoreAndReset(EmitPixel(
                [d EXCEPT !.lastPixel =
                     ApplyDiff(d.lastPixel, diffRed, diffGreen, diffBlue)]))

\* As RunLoop, had a write past the end been dropped silently, as an indexed
\* assignment to a typed array is: the offset moves on past the end.
RECURSIVE RunLoopClipped(_, _)
RunLoopClipped(d, runLength) ==
    IF runLength = 0 THEN d
    ELSE IF SetFits(d.pixels, d.lastPixel, d.pixelOffset)
    THEN RunLoopClipped(EmitPixel(d), runLength - 1)
    ELSE RunLoopClipped([d EXCEPT !.pixelOffset = d.pixelOffset + 4],
                        runLength - 1)

\* lines 232-239: the loop that writes a run; a write past the end throws
RECURSIVE RunLoop(_, _)
RunLoop(d, runLength) ==
    IF runLength = 0 \/ d.thrown # NoError THEN d
    ELSE RunLoop(EmitPixel(d), runLength - 1)

\* As OpRun, with the run length taken to be the low 6 bits, without the + 1.
OpRunShort(d, byte) == StoreAndReset(RunLoop(d, BitAnd(byte, 63)))

\* lines 229-240
OpRun(d, byte) == StoreAndReset(RunLoop(d, BitAnd(byte, 63) + 1))

\* lines 140-256: one byte of the opcode stream
OpcodeByte(d, byte) ==
    LET d1 == [d EXCEPT !.op = SelectOp(d.op, byte)]
    IN CASE d1.op = OP_RGB_ID -> OpRgb(d1, byte)
         [] d1.op = OP_RGBA_ID -> OpRgba(d1, byte)
         [] d1.op = OP_INDEX_ID -> OpIndex(d1, byte)
         [] d1.op = OP_DIFF_ID -> OpDiff(d1, byte)
         [] d1.op = OP_LUMA_ID -> OpLuma(d1, byte)
         [] d1.op = OP_RUN_ID -> OpRun(d1, byte)
         [] OTHER -> StoreAndReset(d1)

\* As ProcessByte, with `pixelOffset > pixels.length` for `>=`: the first byte
\* after the last pixel would still go to the opcodes.
ProcessByteLateGuard(d, byte) ==
    IF ~d.seenHeader THEN HeaderByte(d, byte)
    ELSE IF d.pixelOffset > ArrayLength(d.pixels) THEN TrailerByte(d, byte)
    ELSE OpcodeByte(d, byte)

\* lines 98-257: the body of `for (const byte of bytes)`
ProcessByte(d, byte) ==
    IF ~d.seenHeader THEN HeaderByte(d, byte)
    ELSE IF d.pixelOffset >= ArrayLength(d.pixels) THEN TrailerByte(d, byte)
    ELSE OpcodeByte(d, byte)

\* lines 98-257: the loop over the bytes of one chunk; an exception ends it
RECURSIVE ForOfBytes(_, _)
ForOfBytes(d, bytes) ==
    IF bytes = <<>> \/ d.thrown # NoError THEN d
    ELSE ForOfBytes(ProcessByte(d, Head(bytes)), Tail(bytes))

\* As ProcessChunk, had op, opBuffer and opOffset been declared inside the
\* read loop: every chunk would start with no opcode in progress.
ProcessChunkOpLocal(d, bytes) ==
    ForOfBytes([d EXCEPT !.op = IF d.seenHeader THEN OP_NONE_ID
                                                ELSE OP_HEAD_ID,
                         !.opBuffer = NewArray(4),
                         !.opOffset = 0], bytes)

\* lines 96-257: one iteration of the read loop.  The decoder state is
\* declared outside the loop, so a chunk starts from the state the previous
\* chunk left.
ProcessChunk(d, bytes) == ForOfBytes(d, bytes)

\* What the promise of getQoiPixelData settles to: lines 260, or the throw.
Outcome(d, ended) ==
    IF d.thrown # NoError
    THEN [status |-> "rejected", error |-> d.thrown,
          defined |-> FALSE, width |-> 0, height |-> 0, pixels |-> NewArray(0)]
    ELSE IF ended
    THEN [status |-> "returned", error |-> NoError,
          defined |-> d.seenHeader,
          width |-> d.width, height |-> d.height, pixels |-> d.pixels]
    ELSE [status |-> "reading", error |-> NoError,
          defined |-> FALSE, width |-> 0, height |-> 0, pixels |-> NewArray(0)]

\* lines 91-95: the read loop over the chunks of a stream
RECURSIVE ReadLoop(_, _)
ReadLoop(d, chunks) ==
    IF chunks = <<>> \/ d.thrown # NoError THEN d
    ELSE ReadLoop(ProcessChunk(d, Head(chunks)), Tail(chunks))

\* lines 66-261: getQoiPixelData on a stream that delivers `chunks` and ends
getQoiPixelData(chunks) == Outcome(ReadLoop(InitialDecoder, chunks), TRUE)

-----------------------------------------------------------------------------
(* The files the decoder is run on *)

MaxOps == 2      \* opcodes in the body of a generated file
MaxChunk == 3    \* bytes in a chunk (the whole file may also come as one chunk)

\* big-endian bytes of n, 0 <= n < 2^31
U32BE(n) == <<(n \div 16777216) % 256, (n \div 65536) % 256,
              (n \div 256) % 256, n % 256>>

\* the 14 header bytes, from the 4 width bytes, the 4 height bytes and the modes
HeaderBytes(wb, hb, channels, colorspace) ==
    <<113, 111, 105, 102>> \o wb \o hb \o <<channels, colorspace>>

HeaderOf(w, h, channels, colorspace) ==
    HeaderBytes(U32BE(w), U32BE(h), channels, colorspace)

TrailerOK == <<0, 0, 0, 0, 0, 0, 0, 1>>

\* opcodes, each with its data bytes
OpTokens ==
    { <<254, 100, 100, 100>>,        \* RGB
      <<255, 10, 20, 30, 255>>,      \* RGBA
      <<255, 64, 0, 0, 128>>,        \* RGBA, alpha 128, cache slot 0
      <<5>>, <<53>>,                 \* INDEX 5, INDEX 53
      <<64>>,                        \* DIFF -2 -2 -2
      <<191, 255>>,                  \* LUMA dg 31, dr 38, db 38
      <<192>>, <<193>> }             \* RUN 1, RUN 2

\* the sequences of at most n of the opcodes `tokens`
RECURSIVE BodiesOf(_, _)
BodiesOf(tokens, n) ==
    IF n = 0 THEN {<<>>}
    ELSE LET shorter == BodiesOf(tokens, n - 1)
         IN shorter \cup {b \o t : b \in shorter, t \in tokens}

Bodies(n) == BodiesOf(OpTokens, n)

\* one opcode of each kind
OneOfEach ==
    { <<254, 100, 100, 100>>, <<255, 64, 0, 0, 128>>, <<5>>, <<64>>,
      <<191, 255>>, <<193>> }

Headers ==
    { HeaderOf(1, 1, 4, 0), HeaderOf(2, 1, 3, 1), HeaderOf(1, 3, 4, 0) }

Trailers ==
    { TrailerOK,
      TrailerOK \o <<0>>,            \* a ninth byte
      <<0, 0, 0, 1, 0, 0, 0, 1>>,    \* a non-zero byte at position 3
      <<0, 0, 0, 0, 0, 0, 0, 0>>,    \* no final 1
      <<0, 0, 0>>,                   \* the stream ends inside the trailer
      <<>> }                         \* the stream ends before the trailer

\* the end-to-end scenario streams of the specification, and broken headers
ScenarioFiles ==
    { HeaderOf(1, 1, 4, 0) \o <<255, 255, 10, 20, 30, 255>> \o TrailerOK,
      HeaderOf(1, 1, 4, 0) \o <<255, 10, 20, 30, 255>> \o TrailerOK,
      HeaderOf(1, 3, 3, 0) \o <<254, 100, 100, 100, 193>> \o TrailerOK,
      HeaderOf(0, 5, 4, 0) \o TrailerOK,
      HeaderOf(1, 1, 4, 2) \o <<5>> \o TrailerOK,
      HeaderOf(1, 1, 5, 0) \o <<5>> \o TrailerOK,
      <<113, 111, 105, 70>> \o U32BE(1) \o U32BE(1) \o <<4, 0, 5>> \o TrailerOK,
      HeaderBytes(<<255, 255, 255, 255>>, U32BE(1), 4, 0) \o <<5>> \o TrailerOK,
      HeaderBytes(<<255, 255, 255, 255>>, <<255, 255, 255, 255>>, 4, 0)
          \o <<5>> \o TrailerOK,
      HeaderBytes(<<0, 1, 0, 0>>, <<0, 1, 0, 0>>, 4, 0) \o <<5>> \o TrailerOK,
      HeaderBytes(<<128, 0, 0, 0>>, <<128, 0, 0, 0>>, 4, 0)
          \o <<5>> \o TrailerOK,
      <<113, 111, 105, 102, 0, 0>> }

\* a body that writes every pixel of a 1, 2 or 3 pixel image
FillingBody(pixelCount) ==
    CASE pixelCount = 1 -> <<254, 100, 100, 100>>
      [] pixelCount = 2 -> <<191, 255, 64>>
      [] OTHER -> <<254, 100, 100, 100, 193>>

\* every body with the valid trailer; every trailer after a filling body
\* and after every single opcode; the scenarios
FileSet ==
    {HeaderOf(1, n, 4, 0) \o b \o TrailerOK :
        n \in 1..3, b \in Bodies(MaxOps)}
    \cup UNION {{HeaderOf(1, n, 4, 0) \o b \o t :
                    b \in Bodies(1) \cup {FillingBody(n)}, t \in Trailers} :
                n \in 1..3}
    \cup ScenarioFiles

\* The files on which single opcodes are examined: bodies with one opcode of
\* each kind in a 3 pixel image, and short bodies in an image with room for
\* the longest run.  They end where the body ends.
OpsFileSet ==
    {HeaderOf(3, 1, 3, 1) \o b : b \in BodiesOf(OneOfEach, MaxOps)}
    \cup {HeaderOf(8, 8, 4, 0) \o b : b \in Bodies(1)}
    \cup {HeaderOf(8, 8, 4, 0) \o <<254, 100, 100, 100>> \o <<253>>}
    \cup {HeaderOf(3, 1, 3, 1) \o <<254, 255, 254, 192>>
               \o <<255, 254, 255, 0, 193>>}
    \cup {HeaderOf(3, 1, 3, 1) \o <<255, 250, 3, 128, 77>> \o <<b1, 254>> :
             b1 \in {128, 160}}
    \cup {HeaderOf(3, 1, 3, 1) \o <<255, 64, 0, 0, 128>> \o <<0>> \o <<5>>}

\* The files on which the channel arithmetic is examined: an RGBA pixel with
\* every value 0..255 in each colour channel.
WrapFileSet ==
    {HeaderOf(2, 1, 4, 0) \o <<255, c, (c + 85) % 256, (c + 170) % 256, 128>> :
        c \in Byte}
    \cup {HeaderOf(2, 1, 4, 0) \o <<255, 0, 85, 170, 128>> \o <<64>>}

\* the bytes a 32-bit header field is drawn from, most significant first
WordSamples ==
    {<<a, b, c, d>> : a \in {0, 1, 127, 128, 255}, b \in {0, 255},
                      c \in {0, 128}, d \in {0, 1, 255}}

\* the 14-byte buffers parseQoiHeaderBytes is called on directly
HeaderInputs ==
    {HeaderBytes(wb, hb, channels, colorspace) :
        wb \in WordSamples,
        hb \in {<<0, 0, 0, 1>>, <<0, 0, 2, 0>>, <<255, 255, 255, 255>>,
                <<128, 0, 0, 0>>, <<127, 255, 255, 255>>},
        channels \in {3, 4, 0, 5}, colorspace \in {0, 1, 2, 255}}
    \cup {<<113, 111, 105, 70>> \o U32BE(1) \o U32BE(1) \o <<4, 0>>,
          <<81, 111, 105, 102>> \o U32BE(1) \o U32BE(1) \o <<4, 0>>}

-----------------------------------------------------------------------------
(* The decode session as a state machine: one step per resolved read *)

NotCalled == [called |-> FALSE]

\* the canvas before anything is painted on it
Blank == [painted |-> FALSE]

\* main.js 12: getContext("bitmaprenderer") returns a rendering context, or
\* null when the canvas cannot give one
Contexts == {"bitmaprenderer", "null"}

\* the worker and the page before any file is selected, in a page whose
\* canvas gave a context.  The direct calls of the decoder start here: the
\* page takes no step in them.
WorkerIdle ==
    /\ queue = <<>>
    /\ calls = <<>>
    /\ debugLogUrl = 0
    /\ inbox = <<>>
    /\ canvas = Blank
    /\ worker = [state |-> "unevaluated", unheard |-> <<>>]
    /\ context = "bitmaprenderer"

\* a decode session about to start on one of `files`
Session(files) ==
    /\ file \in files
    /\ pos = 0
    /\ dec = InitialDecoder
    /\ pc = "reading"
    /\ splits = {}
    /\ buffer = <<>>
    /\ header = NotCalled
    /\ WorkerIdle

Init == Session(FileSet)

InitOps == Session(OpsFileSet)

InitWrap == Session(WrapFileSet)

\* the sizes the next chunk can have when `left` bytes are left: up to
\* MaxChunk bytes, or the whole file as the only chunk
ChunkSizes(left) ==
    (1..Min(MaxChunk, left)) \cup (IF pos = 0 THEN {left} ELSE {})

BufferFull(d) == d.seenHeader /\ d.pixelOffset >= ArrayLength(d.pixels)

\* what the decoder is in the middle of when it waits for the next chunk
Cut(d) ==
    IF d.thrown # NoError THEN {}
    ELSE IF ~d.seenHeader
    THEN (IF d.headerBufferOffset > 0 THEN {"header"} ELSE {})
    ELSE IF BufferFull(d)
    THEN (IF d.pixelOffset - ArrayLength(d.pixels) \in 1..7
          THEN {"trailer"} ELSE {})
    ELSE IF d.op = OP_RGB_ID THEN {"rgb"}
    ELSE IF d.op = OP_RGBA_ID THEN {"rgba"}
    ELSE IF d.op = OP_LUMA_ID THEN {"luma"}
    ELSE {}

\* lines 92-257: reader.read() resolves with a chunk, whose bytes are all
\* processed before the next read; an exception rejects the promise
ReadChunk ==
    /\ pc = "reading"
    /\ pos < Len(file)
    /\ \E n \in ChunkSizes(Len(file) - pos) :
          LET d == ProcessChunk(dec, SubSeq(file, pos + 1, pos + n))
          IN /\ dec' = d
             /\ pos' = pos + n
             /\ pc' = IF d.thrown # NoError THEN "rejected" ELSE "reading"
             /\ splits' = IF pos + n < Len(file)
                          THEN splits \cup Cut(d) ELSE splits
    /\ UNCHANGED <<file, buffer, header>>
    /\ UNCHANGED workerVars

\* lines 93, 260: reader.read() resolves with done, the call returns
ReadDone ==
    /\ pc = "reading"
    /\ pos = Len(file)
    /\ pc' = "returned"
    /\ UNCHANGED <<file, pos, dec, splits, buffer, header>>
    /\ UNCHANGED workerVars

Next == ReadChunk \/ ReadDone

Spec == Init /\ [][Next]_vars

SpecOps == InitOps /\ [][Next]_vars

SpecWrap == InitWrap /\ [][Next]_vars

\* what the promise of the running call has settled to
Result == Outcome(dec, pc = "returned")

-----------------------------------------------------------------------------
(* parseQoiHeaderBytes called on its own *)

InitHeader ==
    /\ buffer \in HeaderInputs
    /\ header = NotCalled
    /\ file = <<>>
    /\ pos = 0
    /\ dec = InitialDecoder
    /\ pc = "idle"
    /\ splits = {}
    /\ WorkerIdle

ParseHeader ==
    /\ ~header.called
    /\ header' = [called |-> TRUE] @@ parseQoiHeaderBytes(ArrayOf(buffer))
    /\ UNCHANGED <<file, pos, dec, pc, splits, buffer>>
    /\ UNCHANGED workerVars

SpecHeader == InitHeader /\ [][ParseHeader]_vars

-----------------------------------------------------------------------------
(* Chunking, end of stream, trailer *)

\* C1: however the stream is cut into chunks, the call settles to what it
\* settles to when the whole stream arrives as one chunk: the same width,
\* height and pixels, or the same error.
C1_ChunkingInvisible ==
    pc \in {"returned", "rejected"} => Result = getQoiPixelData(<<file>>)

\* C1 witness: a complete image has been returned after chunk boundaries fell
\* inside the header, inside an RGBA and a LUMA opcode, and inside the trailer.
C1_Witness ==
    /\ pc = "returned"
    /\ {"header", "rgba", "luma", "trailer"} \subseteq splits
    /\ dec.pixelOffset = ArrayLength(dec.pixels) + 8
    /\ ArrayLength(dec.pixels) = 8

\* C2: a call returns only after the whole header, every pixel and all eight
\* trailer bytes have been read; a stream that ends earlier makes it fail.
C2_EarlyEndRejected ==
    pc = "returned" =>
        /\ dec.seenHeader
        /\ dec.pixelOffset = ArrayLength(dec.pixels) + 8

\* the number of leading bytes of `bytes` after which the pixel buffer is
\* full, -1 if it never is
RECURSIVE BytesUntilFull(_, _, _)
BytesUntilFull(d, bytes, n) ==
    IF d.thrown # NoError THEN -1
    ELSE IF BufferFull(d) THEN n
    ELSE IF bytes = <<>> THEN -1
    ELSE BytesUntilFull(ProcessByte(d, Head(bytes)), Tail(bytes), n + 1)

\* the number of bytes read since the pixel buffer became full
TrailerPosition == pos - BytesUntilFull(InitialDecoder, file, 0)

\* C3: with the buffer full, the k-th further byte is accepted exactly when
\* it is 0 at k in 0..6 or 1 at k = 7; every other byte, and every byte at
\* k > 7, fails with the trailer mismatch error.
C3_TrailerBytesChecked ==
    (pc = "reading" /\ BufferFull(dec)) =>
        LET k == TrailerPosition
        IN \A b \in Byte :
              IF (k \in 0..6 /\ b = 0) \/ (k = 7 /\ b = 1)
              THEN ProcessByte(dec, b) =
                       [dec EXCEPT !.pixelOffset = dec.pixelOffset + 1]
              ELSE ProcessByte(dec, b).thrown = TrailerMismatch

\* C3 witness: all eight trailer bytes have been accepted, one by one
C3_Witness ==
    /\ pc = "reading"
    /\ BufferFull(dec)
    /\ ArrayLength(dec.pixels) > 0
    /\ TrailerPosition = 8
    /\ "trailer" \in splits

C5Stream ==
    HeaderOf(1, 1, 4, 0) \o <<255, 255, 10, 20, 30, 255>> \o TrailerOK

C5StreamAmended ==
    HeaderOf(1, 1, 4, 0) \o <<255, 10, 20, 30, 255>> \o TrailerOK

C5Image ==
    [status |-> "returned", error |-> NoError, defined |-> TRUE,
     width |-> 1, height |-> 1, pixels |-> ArrayOf(<<10, 20, 30, 255>>)]

\* C5 as stated: the 1x1 header, the six bytes FF FF 0A 14 1E FF and the
\* trailer decode to the single pixel (10, 20, 30, 255).
C5_ScenarioAsStated ==
    (file = C5Stream /\ pc # "reading") => Result = C5Image

\* C5 amended: the 1x1 header, the RGBA opcode FF 0A 14 1E FF (tag and four
\* data bytes) and the trailer decode to the single pixel (10, 20, 30, 255).
C5_Scenario ==
    (file = C5StreamAmended /\ (pc # "reading" \/ pos = Len(file))) =>
        Outcome(dec, TRUE) = C5Image

\* C5 witness: the amended stream has been decoded and returned
C5_Witness ==
    file = C5StreamAmended /\ pc = "returned" /\ "rgba" \in splits

-----------------------------------------------------------------------------
(* Single opcodes: what one more byte does to a reachable decoder state *)

\* the decoder waits for a chunk and the next byte belongs to the opcodes
InOpcodes == pc = "reading" /\ dec.seenHeader /\ ~BufferFull(dec)

\* ... and it is the tag of a new opcode
AwaitingTag == InOpcodes /\ dec.op = OP_NONE_ID

\* the opcode a byte belongs to, by the format's tag ranges
KindOf(d, b) ==
    IF d.op # OP_NONE_ID THEN d.op
    ELSE IF b = 254 THEN OP_RGB_ID
    ELSE IF b = 255 THEN OP_RGBA_ID
    ELSE IF b \in 0..63 THEN OP_INDEX_ID
    ELSE IF b \in 64..127 THEN OP_DIFF_ID
    ELSE IF b \in 128..191 THEN OP_LUMA_ID
    ELSE OP_RUN_ID

\* the bytes of `after.pixels` written since `before` all belong to pixels
\* of alpha a
WrittenAlphaIs(before, after, a) ==
    \A i \in before.pixelOffset..(after.pixelOffset - 1) :
        i % 4 = 3 => after.pixels[i] = a

\* C4 as stated: DIFF, LUMA, INDEX and RUN leave the alpha of the previous
\* pixel as it was, and emit pixels with that alpha.
C4_AlphaOnlySetByRgba ==
    InOpcodes =>
        \A b \in Byte :
            LET d == ProcessByte(dec, b)
            IN (d.thrown = NoError /\ KindOf(dec, b) \in
                    {OP_INDEX_ID, OP_DIFF_ID, OP_LUMA_ID, OP_RUN_ID}) =>
                    /\ d.lastPixel[3] = dec.lastPixel[3]
                    /\ WrittenAlphaIs(dec, d, dec.lastPixel[3])

\* C4 amended: every emitted pixel has the alpha of the previous-pixel
\* register after its opcode; RGB, DIFF, LUMA and RUN leave that alpha as it
\* was, RGBA sets it to its fourth data byte, and INDEX sets it to the alpha
\* of the cache slot it selects.
C4_AlphaRule ==
    InOpcodes =>
        \A b \in Byte :
            LET d == ProcessByte(dec, b)
                kind == KindOf(dec, b)
            IN d.thrown = NoError =>
                /\ WrittenAlphaIs(dec, d, d.lastPixel[3])
                /\ d.lastPixel[3] =
                      IF kind = OP_RGBA_ID /\ d.op = OP_NONE_ID THEN b
                      ELSE IF kind = OP_INDEX_ID
                      THEN dec.indexValues[4 * (b % 64) + 3]
                      ELSE dec.lastPixel[3]

\* C4 witness: an RGBA opcode has set alpha 128 and an INDEX opcode has then
\* taken alpha 0 from a slot of the cache
C4_Witness ==
    /\ pc = "reading"
    /\ file = HeaderOf(3, 1, 3, 1) \o <<255, 64, 0, 0, 128>> \o <<5>>
    /\ pos = Len(file)
    /\ dec.pixels[3] = 128
    /\ dec.pixels[7] = 0
    /\ dec.lastPixel[3] = 0

\* pixels not yet written
Room(d) == (ArrayLength(d.pixels) - d.pixelOffset) \div 4

\* d.pixels with n copies of pixel p written from d.pixelOffset on
WithRun(d, p, n) ==
    [i \in DOMAIN d.pixels |->
        IF i >= d.pixelOffset /\ i < d.pixelOffset + 4 * n
        THEN p[(i - d.pixelOffset) % 4] ELSE d.pixels[i]]

\* a RUN tag of length n has appended n copies of the previous pixel to
\* `before`, giving `after`
RunAppended(before, after, n) ==
    /\ after.thrown = NoError
    /\ after.pixelOffset = before.pixelOffset + 4 * n
    /\ after.pixels = WithRun(before, before.lastPixel, n)
    /\ after.lastPixel = before.lastPixel

\* C8 as stated: a RUN tag of length N, 1 <= N <= 62, read while the buffer
\* is not full, appends N copies of the previous pixel and leaves it as it was.
C8_RunAppendsN ==
    AwaitingTag =>
        \A b \in 192..253 : RunAppended(dec, ProcessByte(dec, b), b - 191)

\* C8 amended: ... read while at least N pixels are still unwritten ...
C8_RunAppendsNWithRoom ==
    AwaitingTag =>
        \A b \in 192..253 :
            (b - 191) <= Room(dec) =>
                RunAppended(dec, ProcessByte(dec, b), b - 191)

\* C8 witness: in a 64 pixel image the pixel (100, 100, 100, 255) has been
\* decoded and a run of 62 has followed it
C8_Witness ==
    /\ pc = "reading"
    /\ file = HeaderOf(8, 8, 4, 0) \o <<254, 100, 100, 100>> \o <<253>>
    /\ pos = Len(file)
    /\ dec.pixelOffset = 4 * 63
    /\ \A i \in 0..251 : dec.pixels[i] = IF i % 4 = 3 THEN 255 ELSE 100
    /\ dec.pixels[252] = 0

\* The LUMA opcodes examined: every first byte (green delta -32..31) with
\* second byte 88 (red and blue as green), and every value of each nibble of
\* the second byte with green delta -32, 0 and 31: red and blue deltas take
\* every value in -40..38.
LumaPairs ==
    {<<b1, 136>> : b1 \in 128..191}
    \cup {<<b1, b2>> : b1 \in {128, 160, 191},
                       b2 \in {17 * n : n \in 0..15} \cup {15, 240}}

\* lastPixel `after` is `before` with the deltas added modulo 256
Wrapped(before, after, dr, dg, db) ==
    /\ after[0] = (before[0] + dr) % 256
    /\ after[1] = (before[1] + dg) % 256
    /\ after[2] = (before[2] + db) % 256

\* C9: DIFF adds its deltas (-2..1), and LUMA its deltas (green -32..31, red
\* and blue -40..38), to the previous pixel's channels modulo 256.
C9_DiffLumaWrap ==
    AwaitingTag =>
        /\ \A b \in 64..127 :
              Wrapped(dec.lastPixel, ProcessByte(dec, b).lastPixel,
                      ((b - 64) \div 16) - 2, ((b \div 4) % 4) - 2,
                      (b % 4) - 2)
        /\ \A op \in LumaPairs :
              LET dg == op[1] - 128 - 32
              IN Wrapped(dec.lastPixel,
                         ProcessByte(ProcessByte(dec, op[1]), op[2]).lastPixel,
                         dg + (op[2] \div 16) - 8, dg, dg + (op[2] % 16) - 8)

\* C9 witness: DIFF -2 -2 -2 after the pixel (0, 85, 170, 128) has given
\* (254, 83, 168, 128)
C9_Witness ==
    /\ pc = "reading"
    /\ file = HeaderOf(2, 1, 4, 0) \o <<255, 0, 85, 170, 128>> \o <<64>>
    /\ pos = Len(file)
    /\ dec.lastPixel = ArrayOf(<<254, 83, 168, 128>>)

\* the cache with pixel p written into the slot of its hash
WithStored(indexValues, p) ==
    LET slot == (p[0] * 3 + p[1] * 5 + p[2] * 7 + p[3] * 11) % 64
    IN [indexValues EXCEPT ![4 * slot] = p[0], ![4 * slot + 1] = p[1],
                           ![4 * slot + 2] = p[2], ![4 * slot + 3] = p[3]]

\* C10: the byte that completes an opcode of any kind leaves the cache as it
\* was but for slot (R*3 + G*5 + B*7 + A*11) mod 64 of the new previous
\* pixel, which holds that pixel.
C10_CacheStore ==
    InOpcodes =>
        \A b \in Byte :
            LET d == ProcessByte(dec, b)
            IN (d.thrown = NoError /\ d.op = OP_NONE_ID) =>
                  d.indexValues = WithStored(dec.indexValues, d.lastPixel)

\* C10 witness: after RGB (100, 100, 100) and DIFF -2 -2 -2, slots 17 and 51
\* hold the two pixels
C10_Witness ==
    /\ pc = "reading"
    /\ file = HeaderOf(3, 1, 3, 1) \o <<254, 100, 100, 100>> \o <<64>>
    /\ pos = Len(file)
    /\ ArraySlice(dec.indexValues, 68, 72) = ArrayOf(<<100, 100, 100, 255>>)
    /\ ArraySlice(dec.indexValues, 204, 208) = ArrayOf(<<98, 98, 98, 255>>)

-----------------------------------------------------------------------------
(* The header *)

\* v is the unsigned number whose big-endian bytes are `bytes`
IsUnsigned(v, bytes) == v >= 0 /\ U32BE(v) = bytes

MagicOK == SubSeq(buffer, 1, 4) = <<113, 111, 105, 102>>

\* C6: a header with the right magic and a supported channels byte is
\* rejected with the colorspace error when its colorspace byte (offset 13)
\* is neither 0 nor 1, and only then.
C6_ColorspaceChecked ==
    (header.called /\ MagicOK /\ buffer[13] \in {3, 4}) =>
        IF buffer[14] \in {0, 1}
        THEN header.thrown = NoError
        ELSE header.thrown = ColorspaceMismatch

\* C7: parsing the 14 bytes of a valid header gives back its width and
\* height (unsigned, big-endian), its channels and its colorspace.
C7_HeaderRoundTrip ==
    (header.called /\ MagicOK /\ buffer[13] \in {3, 4}
                   /\ buffer[14] \in {0, 1}) =>
        /\ header.thrown = NoError
        /\ IsUnsigned(header.width, SubSeq(buffer, 5, 8))
        /\ IsUnsigned(header.height, SubSeq(buffer, 9, 12))
        /\ header.channels = buffer[13]
        /\ header.colorspace = buffer[14]

-----------------------------------------------------------------------------
(* The end-of-buffer guard *)

\* C11: once width*height pixels are written no opcode is in progress, and a
\* further byte of any value is accepted or rejected as a trailer byte only:
\* the pixel buffer, the previous pixel, the color cache and the opcode state
\* stay as they were, and the buffer stays full.
C11_FullBufferOnlyTrailer ==
    (pc = "reading" /\ BufferFull(dec)) =>
        /\ dec.op = OP_NONE_ID
        /\ dec.opOffset = 0
        /\ \A b \in Byte :
              LET d == ProcessByte(dec, b)
              IN /\ d.thrown \in {NoError, TrailerMismatch}
                 /\ d.pixels = dec.pixels
                 /\ d.lastPixel = dec.lastPixel
                 /\ d.indexValues = dec.indexValues
                 /\ d.op = dec.op
                 /\ d.opBuffer = dec.opBuffer
                 /\ d.opOffset = dec.opOffset
                 /\ BufferFull(d)

\* C11 witness: the three pixels of a 1x3 image are written (an RGB opcode and
\* a run of 2) and five trailer bytes have been read after them
C11_Witness ==
    /\ pc = "reading"
    /\ file = HeaderOf(1, 3, 4, 0) \o <<254, 100, 100, 100, 193>> \o TrailerOK
    /\ pos = 14 + 5 + 5
    /\ dec.pixelOffset = 12 + 5
    /\ dec.pixels = ArrayOf(<<100, 100, 100, 255, 100, 100, 100, 255,
                              100, 100, 100, 255>>)
    /\ dec.lastPixel = ArrayOf(<<100, 100, 100, 255>>)

-----------------------------------------------------------------------------
(* The worker script, its message handler and the page script *)

\* the files selected in the page: complete images, an image that ends
\* without its trailer, a stream that ends inside the header, a wrong magic
WorkerFiles ==
    { HeaderOf(1, 3, 4, 0) \o <<254, 100, 100, 100, 193>> \o TrailerOK,
      HeaderOf(1, 1, 4, 0) \o <<255, 10, 20, 30, 255>> \o TrailerOK,
      HeaderOf(2, 1, 3, 1) \o <<191, 255, 64>> \o TrailerOK,
      HeaderOf(1, 2, 4, 0) \o <<255, 64, 0, 0, 128>> \o <<5>> \o TrailerOK,
      HeaderOf(1, 1, 4, 0) \o <<5>>,
      <<113, 111, 105, 102, 0, 0>>,
      <<113, 111, 105, 70>> \o U32BE(1) \o U32BE(1) \o <<4, 0, 5>> }

\* The sizes of the next chunk of a Blob's stream, which are the
\* implementation's choice: all that is left (what node delivers for a small
\* Blob), or a short or a long chunk of it.
StreamChunkSizes(left) == {left, Min(left, MaxChunk), Min(left, 4 * MaxChunk)}

\* main.js line 1: the page creates the worker with { type: "module" }
WorkerType == "module"

\* line 263: importScripts throws a TypeError in a module worker (in a
\* classic worker it loads ./qoi.js and returns)
ImportScriptsThrows(type) == type = "module"

\* new ImageData(pixels, width, height) throws unless pixels is an array of
\* 4 * width * height bytes, width and height positive
ImageDataThrows(o) ==
    \/ ~o.defined
    \/ o.width <= 0
    \/ o.height <= 0
    \/ ArrayLength(o.pixels) # 4 * o.width * o.height

\* As StoreLocals, had the locals of getQoiPixelData been module variables:
\* what one call assigns, every call sees.
StoreLocalsShared(cs, i, d) == [j \in DOMAIN cs |-> [cs[j] EXCEPT !.dec = d]]

\* lines 67-89: the decoder state is made of locals of the call, so what call
\* i assigns belongs to call i
StoreLocals(cs, i, d) == [cs EXCEPT ![i].dec = d]

\* no getQoiPixelData or parseQoiHeaderBytes call of the single-call
\* specifications is under way
NoDirectCall ==
    /\ file = <<>>
    /\ pos = 0
    /\ dec = InitialDecoder
    /\ pc = "idle"
    /\ splits = {}
    /\ buffer = <<>>
    /\ header = NotCalled

\* main.js 1-12, the page as it loads: the worker is created, its script
\* not yet run, and the canvas has given a context or null
InitPage ==
    /\ queue = <<>>
    /\ calls = <<>>
    /\ debugLogUrl = 0
    /\ inbox = <<>>
    /\ canvas = Blank
    /\ worker = [state |-> "unevaluated", unheard |-> <<>>]
    /\ context \in Contexts
    /\ NoDirectCall

\* The message handler on its own: a worker whose script has run to line 267
\* and registered the listener.  A classic worker with ./qoi.js in place gets
\* there; the module worker the page creates does not (WorkerEvaluate).
InitWorker ==
    /\ queue = <<>>
    /\ calls = <<>>
    /\ debugLogUrl = 0
    /\ inbox = <<>>
    /\ canvas = Blank
    /\ worker = [state |-> "listening", unheard |-> <<>>]
    /\ context \in Contexts
    /\ NoDirectCall

\* main.js 1 and lines 263-267: the worker's script is evaluated.  If
\* importScripts throws, evaluation stops there and the message listener of
\* line 267 is never registered.
WorkerEvaluate ==
    /\ worker.state = "unevaluated"
    /\ worker' = [worker EXCEPT !.state =
                     IF ImportScriptsThrows(WorkerType) THEN "failed"
                                                        ELSE "listening"]
    /\ UNCHANGED <<file, pos, dec, pc, splits, buffer, header, context,
                   queue, calls, debugLogUrl, inbox, canvas>>

\* main.js 20-27: a file is selected and posted to the worker.  Two files are
\* selected in all.
FileChange ==
    /\ Len(calls) + Len(queue) + Len(worker.unheard) < 2
    /\ \E f \in WorkerFiles : queue' = Append(queue, f)
    /\ UNCHANGED <<file, pos, dec, pc, splits, buffer, header, context,
                   calls, debugLogUrl, inbox, canvas, worker>>

\* A message event is dispatched in a worker that has no listener: nothing
\* runs.  `unheard` is history: the files of these messages.
MessageUnheard ==
    /\ queue # <<>>
    /\ worker.state = "failed"
    /\ worker' = [worker EXCEPT !.unheard = Append(@, Head(queue))]
    /\ queue' = Tail(queue)
    /\ UNCHANGED <<file, pos, dec, pc, splits, buffer, header, context,
                   calls, debugLogUrl, inbox, canvas>>

\* lines 267-270 and 67-92: the message event starts a handler call, which
\* runs getQoiPixelData up to its first `await reader.read()`.  `overlapped`
\* is history: the call has read a chunk while another call was in its loop.
WorkerMessage ==
    /\ queue # <<>>
    /\ worker.state = "listening"
    /\ calls' = Append(calls, [file |-> Head(queue), pos |-> 0,
                               dec |-> InitialDecoder, pc |-> "reading",
                               overlapped |-> FALSE])
    /\ queue' = Tail(queue)
    /\ UNCHANGED <<file, pos, dec, pc, splits, buffer, header, context,
                   debugLogUrl, inbox, canvas, worker>>

\* lines 92-257: a read of call i resolves with a chunk
WorkerRead(i) ==
    /\ calls[i].pc = "reading"
    /\ calls[i].pos < Len(calls[i].file)
    /\ \E n \in StreamChunkSizes(Len(calls[i].file) - calls[i].pos) :
          LET c == calls[i]
              d == ProcessChunk(c.dec, SubSeq(c.file, c.pos + 1, c.pos + n))
              others == \E j \in DOMAIN calls :
                            /\ j # i
                            /\ calls[j].pc = "reading"
                            /\ calls[j].pos > 0
          IN calls' = [StoreLocals(calls, i, d) EXCEPT
                          ![i].pos = c.pos + n,
                          ![i].pc = IF d.thrown # NoError THEN "rejected"
                                                          ELSE "reading",
                          ![i].overlapped = c.overlapped \/ others]
    /\ UNCHANGED <<file, pos, dec, pc, splits, buffer, header, context,
                   queue, debugLogUrl, inbox, canvas, worker>>

\* lines 93, 260: the read of call i resolves with done and getQoiPixelData
\* returns; the handler that awaits it (line 270) resumes in a later job
WorkerReadDone(i) ==
    /\ calls[i].pc = "reading"
    /\ calls[i].pos = Len(calls[i].file)
    /\ calls' = [calls EXCEPT ![i].pc = "returned"]
    /\ UNCHANGED <<file, pos, dec, pc, splits, buffer, header, context,
                   queue, debugLogUrl, inbox, canvas, worker>>

\* lines 270-271: the handler of call i resumes after `await
\* getQoiPixelData(stream)`, builds the ImageData, which may throw, and
\* awaits createImageBitmap
WorkerResume(i) ==
    /\ calls[i].pc = "returned"
    /\ calls' = [calls EXCEPT ![i].pc =
                    IF ImageDataThrows(Outcome(calls[i].dec, TRUE))
                    THEN "rejected" ELSE "bitmap"]
    /\ UNCHANGED <<file, pos, dec, pc, splits, buffer, header, context,
                   queue, debugLogUrl, inbox, canvas, worker>>

\* lines 271-279: createImageBitmap of call i resolves; the handler replaces
\* the log URL and posts the bitmap.  `call` is history: the call that posted.
WorkerPost(i) ==
    /\ calls[i].pc = "bitmap"
    /\ calls' = [calls EXCEPT ![i].pc = "posted"]
    /\ debugLogUrl' = i
    /\ inbox' = Append(inbox, [width |-> calls[i].dec.width,
                               height |-> calls[i].dec.height,
                               image |-> calls[i].dec.pixels,
                               call |-> i])
    /\ UNCHANGED <<file, pos, dec, pc, splits, buffer, header, context,
                   queue, canvas, worker>>

\* main.js 14-18: the page receives a bitmap, gives the canvas its size and,
\* if there is a context (`context?.`), paints the bitmap; without one the
\* canvas is resized and nothing is painted
MainMessage ==
    /\ inbox # <<>>
    /\ canvas' = IF context = "null"
                  THEN [painted |-> FALSE, width |-> Head(inbox).width,
                        height |-> Head(inbox).height]
                  ELSE [painted |-> TRUE] @@ Head(inbox)
    /\ inbox' = Tail(inbox)
    /\ UNCHANGED <<file, pos, dec, pc, splits, buffer, header, context,
                   queue, calls, debugLogUrl, worker>>

\* The page and its worker.  The steps of the handler are not among these:
\* no listener is registered in the worker the page creates.
NextPage ==
    \/ WorkerEvaluate
    \/ FileChange
    \/ MessageUnheard

SpecPage == InitPage /\ [][NextPage]_vars

\* the page and a worker in which the handler is registered
NextWorker ==
    \/ FileChange
    \/ WorkerMessage
    \/ \E i \in DOMAIN calls : WorkerRead(i)
    \/ \E i \in DOMAIN calls : WorkerReadDone(i)
    \/ \E i \in DOMAIN calls : WorkerResume(i)
    \/ \E i \in DOMAIN calls : WorkerPost(i)
    \/ MainMessage

SpecWorker == InitWorker /\ [][NextWorker]_vars

\* what call c has decoded, as the bitmap the page would be sent
ImageOf(c) == [width |-> c.dec.width, height |-> c.dec.height,
               image |-> c.dec.pixels]

\* what the file decodes to in a session of its own
ImageAlone(f) ==
    LET o == getQoiPixelData(<<f>>)
    IN [width |-> o.width, height |-> o.height, image |-> o.pixels]

\* C12: however the reads of two handler calls interleave, the decoder state
\* of each call is at every moment the state a call running alone has after
\* the same bytes, and the width, height and pixels it ends with, and posts,
\* are those of its file decoded alone.
C12_SessionsIndependent ==
    /\ \A i \in DOMAIN calls :
          LET c == calls[i]
          IN /\ c.dec = ForOfBytes(InitialDecoder, SubSeq(c.file, 1, c.pos))
             /\ c.pc # "reading" =>
                   Outcome(c.dec, TRUE) = getQoiPixelData(<<c.file>>)
    /\ \A k \in DOMAIN inbox :
          [width |-> inbox[k].width, height |-> inbox[k].height,
           image |-> inbox[k].image] = ImageAlone(calls[inbox[k].call].file)

\* C12 witness: two calls on different images have both posted their bitmaps
\* after each read chunks while the other was in its read loop
C12_Witness ==
    /\ Len(calls) = 2
    /\ calls[1].file =
          HeaderOf(1, 2, 4, 0) \o <<255, 64, 0, 0, 128>> \o <<5>> \o TrailerOK
    /\ calls[2].file =
          HeaderOf(1, 3, 4, 0) \o <<254, 100, 100, 100, 193>> \o TrailerOK
    /\ \A i \in 1..2 : calls[i].pc = "posted" /\ calls[i].overlapped
    /\ ImageOf(calls[1]).image = ArrayOf(<<64, 0, 0, 128, 0, 0, 0, 0>>)
    /\ ImageOf(calls[2]).image =
          ArrayOf(<<100, 100, 100, 255, 100, 100, 100, 255,
                    100, 100, 100, 255>>)

\* the bitmap of call i has been posted and delivered to the page
Delivered(i) ==
    /\ i \in DOMAIN calls
    /\ calls[i].pc = "posted"
    /\ \A k \in DOMAIN inbox : inbox[k].call # i

\* the files selected so far, in the order of selection
Selected ==
    [i \in 1..Len(calls) |-> calls[i].file] \o worker.unheard \o queue

\* the file is an image the handler can post: it decodes and fits ImageData
Decodable(f) ==
    LET o == getQoiPixelData(<<f>>)
    IN o.status = "returned" /\ ~ImageDataThrows(o)

\* both messages have been dispatched and nothing is under way any more
Settled ==
    /\ Len(Selected) = 2
    /\ queue = <<>>
    /\ inbox = <<>>
    /\ \A i \in DOMAIN calls : calls[i].pc \in {"posted", "rejected"}

\* C20: the bitmaps of two files selected one after the other are posted in
\* the order of selection, so that once the bitmap of the second file has
\* been delivered the canvas shows it, and when everything has settled the
\* canvas shows the image of the file selected last.
C20_LastSelectedShown ==
    /\ \A k, l \in DOMAIN inbox : k < l => inbox[k].call < inbox[l].call
    /\ Delivered(2) => (canvas.painted /\ canvas.call = 2)
    /\ (Settled /\ Decodable(Selected[2])) =>
          /\ canvas.painted
          /\ [width |-> canvas.width, height |-> canvas.height,
              image |-> canvas.image] = ImageAlone(Selected[2])

-----------------------------------------------------------------------------
(* Tag dispatch, multi-byte opcodes, INDEX *)

\* C13: a tag byte selects RGB if it is 0xFE, RGBA if it is 0xFF, and
\* otherwise INDEX, DIFF, LUMA or RUN by its top two bits 00, 01, 10, 11.
\* The byte then acts as that opcode's first byte: RGB, RGBA and LUMA wait
\* for data and emit nothing, INDEX and DIFF emit one pixel, and RUN, which
\* 0xFE and 0xFF never select, emits 1 to 62 pixels.
C13_TagDispatch ==
    AwaitingTag =>
        \A b \in Byte :
            LET kind == SelectOp(dec.op, b)
                d == ProcessByte(dec, b)
            IN /\ kind = IF b = 254 THEN OP_RGB_ID
                         ELSE IF b = 255 THEN OP_RGBA_ID
                         ELSE IF b \div 64 = 0 THEN OP_INDEX_ID
                         ELSE IF b \div 64 = 1 THEN OP_DIFF_ID
                         ELSE IF b \div 64 = 2 THEN OP_LUMA_ID
                         ELSE OP_RUN_ID
               /\ kind \in {OP_RGB_ID, OP_RGBA_ID, OP_LUMA_ID} =>
                     /\ d.thrown = NoError
                     /\ d.op = kind
                     /\ d.opOffset = 1
                     /\ d.pixelOffset = dec.pixelOffset
               /\ kind \in {OP_INDEX_ID, OP_DIFF_ID} =>
                     /\ d.thrown = NoError
                     /\ d.op = OP_NONE_ID
                     /\ d.pixelOffset = dec.pixelOffset + 4
               /\ kind = OP_RUN_ID =>
                     /\ b \in 192..253
                     /\ d.thrown = NoError =>
                           /\ d.op = OP_NONE_ID
                           /\ d.pixelOffset = dec.pixelOffset + 4 * (b - 191)

\* C13 witness: the byte 0xFE has been read as a tag in a 64 pixel image and
\* has started an RGB opcode without writing a pixel
C13_Witness ==
    /\ pc = "reading"
    /\ file = HeaderOf(8, 8, 4, 0) \o <<254, 100, 100, 100>> \o <<253>>
    /\ pos = 15
    /\ dec.op = OP_RGB_ID
    /\ dec.opOffset = 1
    /\ dec.pixelOffset = 0

\* the decoder is inside an RGB or RGBA opcode: the tag and opOffset - 1 data
\* bytes have been read
InRgbOrRgba == InOpcodes /\ dec.op \in {OP_RGB_ID, OP_RGBA_ID}

\* the number of data bytes of the opcode
DataBytes(op) == IF op = OP_RGB_ID THEN 3 ELSE 4

\* C14: inside an RGB (RGBA) opcode the data bytes read so far are held in
\* the order they came, whatever their values, and nothing has been emitted
\* for them; the next byte, whatever its value, is the next data byte; only
\* the third (fourth) data byte emits a pixel, and it emits exactly one:
\* (R, G, B, alpha of the previous pixel) for RGB, (R, G, B, A) for RGBA.
C14_RgbRgbaData ==
    InRgbOrRgba =>
        LET k == dec.opOffset
            need == DataBytes(dec.op)
        IN /\ k \in 1..need
           /\ file[pos - k + 1] = IF dec.op = OP_RGB_ID THEN 254 ELSE 255
           /\ \A j \in 0..(k - 2) : dec.opBuffer[j] = file[pos - k + 2 + j]
           /\ \A b \in Byte :
                 LET d == ProcessByte(dec, b)
                     p == IF dec.op = OP_RGB_ID
                          THEN ArrayOf(<<dec.opBuffer[0], dec.opBuffer[1], b,
                                         dec.lastPixel[3]>>)
                          ELSE ArrayOf(<<dec.opBuffer[0], dec.opBuffer[1],
                                         dec.opBuffer[2], b>>)
                 IN IF k < need
                    THEN d = [dec EXCEPT !.opBuffer[k - 1] = b,
                                         !.opOffset = k + 1]
                    ELSE /\ d.thrown = NoError
                         /\ d.op = OP_NONE_ID
                         /\ d.pixelOffset = dec.pixelOffset + 4
                         /\ d.pixels = WithRun(dec, p, 1)
                         /\ d.lastPixel = p

\* C14 witness: an RGB opcode with data FF FE C0 and an RGBA opcode with data
\* FE FF 00 C1, both cut by chunk boundaries, have given the pixels
\* (255, 254, 192, 255) and (254, 255, 0, 193)
C14_Witness ==
    /\ pc = "reading"
    /\ file = HeaderOf(3, 1, 3, 1) \o <<254, 255, 254, 192>>
                  \o <<255, 254, 255, 0, 193>>
    /\ pos = Len(file)
    /\ {"rgb", "rgba"} \subseteq splits
    /\ dec.pixelOffset = 8
    /\ ArraySlice(dec.pixels, 0, 8) =
          ArrayOf(<<255, 254, 192, 255, 254, 255, 0, 193>>)

\* the decoder has read the first byte of a LUMA opcode
InLuma == InOpcodes /\ dec.op = OP_LUMA_ID

\* C15: the first byte b1 of a LUMA opcode only stores b1 & 0x3F and emits
\* nothing; the byte after it, whatever its value and whichever chunk it
\* comes in, is the second byte b2 and emits exactly one pixel: the previous
\* pixel with dG = (b1 & 0x3F) - 32 added to green, dG + (b2 >> 4) - 8 to red
\* and dG + (b2 & 0x0F) - 8 to blue, modulo 256, alpha as it was.
C15_LumaTwoBytes ==
    /\ AwaitingTag =>
          \A b1 \in 128..191 :
              ProcessByte(dec, b1) = [dec EXCEPT !.op = OP_LUMA_ID,
                                                 !.opBuffer[0] = b1 - 128,
                                                 !.opOffset = 1]
    /\ InLuma =>
          /\ dec.opOffset = 1
          /\ file[pos] \in 128..191
          /\ dec.opBuffer[0] = file[pos] - 128
          /\ \A b2 \in Byte :
                LET d == ProcessByte(dec, b2)
                    dg == (file[pos] - 128) - 32
                    dr == dg + ((b2 \div 16) - 8)
                    db == dg + ((b2 % 16) - 8)
                    p == ArrayOf(<<(dec.lastPixel[0] + dr) % 256,
                                   (dec.lastPixel[1] + dg) % 256,
                                   (dec.lastPixel[2] + db) % 256,
                                   dec.lastPixel[3]>>)
                IN /\ d.thrown = NoError
                   /\ d.op = OP_NONE_ID
                   /\ d.pixelOffset = dec.pixelOffset + 4
                   /\ d.pixels = WithRun(dec, p, 1)
                   /\ d.lastPixel = p

\* C15 witness: after the pixel (250, 3, 128, 77) the LUMA bytes 80 FE, split
\* between two chunks, have given (225, 227, 102, 77): dG -32, dR -25, dB -26
C15_Witness ==
    /\ pc = "reading"
    /\ file = HeaderOf(3, 1, 3, 1) \o <<255, 250, 3, 128, 77>> \o <<128, 254>>
    /\ pos = Len(file)
    /\ "luma" \in splits
    /\ dec.pixelOffset = 8
    /\ ArraySlice(dec.pixels, 4, 8) = ArrayOf(<<225, 227, 102, 77>>)

\* the pixel in slot i of the color cache
Slot(indexValues, i) == ArraySlice(indexValues, 4 * i, 4 * i + 4)

\* the hash of the format: the slot a pixel belongs to
Hash(p) == (p[0] * 3 + p[1] * 5 + p[2] * 7 + p[3] * 11) % 64

\* an INDEX byte selecting slot i has emitted the content of that slot
IndexEmitted(before, after, i) ==
    /\ after.thrown = NoError
    /\ after.op = OP_NONE_ID
    /\ after.pixelOffset = before.pixelOffset + 4
    /\ after.lastPixel = Slot(before.indexValues, i)
    /\ after.pixels = WithRun(before, Slot(before.indexValues, i), 1)

\* C16 as stated: an INDEX opcode selecting slot i emits the content of slot
\* i, the cache write that follows targets slot i, and the cache is the same
\* before and after.
C16_IndexRewriteNoOp ==
    AwaitingTag =>
        \A i \in 0..63 :
            LET d == ProcessByte(dec, i)
            IN /\ IndexEmitted(dec, d, i)
               /\ Hash(d.lastPixel) = i
               /\ d.indexValues = dec.indexValues

\* C16 amended: an INDEX opcode selecting slot i emits the content of slot
\* i.  If the slot holds a stored pixel the cache write that follows targets
\* slot i and leaves the cache as it was; if it still holds its initial
\* (0, 0, 0, 0) the write targets slot 0, the slot of that pixel's hash,
\* which holds (0, 0, 0, 0) afterwards, the rest of the cache unchanged.
C16_IndexRewrite ==
    AwaitingTag =>
        \A i \in 0..63 :
            LET d == ProcessByte(dec, i)
                p == Slot(dec.indexValues, i)
            IN /\ IndexEmitted(dec, d, i)
               /\ IF p # NewArray(4)
                  THEN /\ Hash(p) = i
                       /\ d.indexValues = dec.indexValues
                  ELSE d.indexValues =
                           [k \in DOMAIN dec.indexValues |->
                               IF k < 4 THEN 0 ELSE dec.indexValues[k]]

\* C16 witness: RGBA (64, 0, 0, 128) was stored in slot 0, INDEX 0 emitted
\* it again, and INDEX 5, on a slot never written, emitted (0, 0, 0, 0) and
\* wrote it over slot 0: the cache is empty again
C16_Witness ==
    /\ pc = "reading"
    /\ file = HeaderOf(3, 1, 3, 1) \o <<255, 64, 0, 0, 128>> \o <<0>> \o <<5>>
    /\ pos = Len(file)
    /\ dec.pixels = ArrayOf(<<64, 0, 0, 128, 64, 0, 0, 128, 0, 0, 0, 0>>)
    /\ dec.indexValues = NewArray(INDEX_ARRAY_SIZE * 4)

-----------------------------------------------------------------------------
(* The pixel buffer *)

\* The offset of the next pixel write.  Once the buffer is full the source
\* counts the trailer bytes in the same variable, and nothing is written.
WriteOffset(d) == Min(d.pixelOffset, ArrayLength(d.pixels))

\* what the bytes of one chunk may do to the pixel buffer
AppendStep(before, after) ==
    LET a == WriteOffset(before)
        b == WriteOffset(after)
    IN /\ b >= a
       /\ (b - a) % 4 = 0
       /\ b > a => ArraySlice(after.pixels, b - 4, b) = after.lastPixel
       /\ before.seenHeader =>
             /\ DOMAIN after.pixels = DOMAIN before.pixels
             /\ \A i \in DOMAIN before.pixels :
                   (i < a \/ i >= b) => after.pixels[i] = before.pixels[i]

\* C17: the write offset never decreases and moves by whole pixels; the
\* bytes between the old and the new offset are the only ones a step
\* changes, the last of them being the pixel just decoded; what lies below
\* the old offset is never changed again.
C17_AppendOnly == [][AppendStep(dec, dec')]_vars

\* C17 witness: a LUMA opcode cut by a chunk boundary and a DIFF opcode have
\* written the two pixels of a 1x2 image one after the other
C17_Witness ==
    /\ pc = "reading"
    /\ file = HeaderOf(1, 2, 4, 0) \o <<191, 255, 64>> \o TrailerOK
    /\ pos = 14 + 3
    /\ "luma" \in splits
    /\ dec.pixelOffset = 8
    /\ dec.pixels = ArrayOf(<<38, 31, 38, 255, 36, 29, 36, 255>>)

\* C18: a RUN tag whose length exceeds the number of pixels still unwritten
\* makes the call fail with the out-of-range error of the typed array write:
\* the pixels that fit are written, the offset stops at the end of the
\* buffer, none of the excess is counted as trailer bytes, and the call can
\* no longer return an image.
C18_RunOvershootFails ==
    /\ AwaitingTag =>
          \A b \in 192..253 :
              LET d == ProcessByte(dec, b)
              IN (b - 191) > Room(dec) =>
                    /\ d.thrown = OffsetOutOfBounds
                    /\ d.pixelOffset = ArrayLength(d.pixels)
                    /\ d.pixels = WithRun(dec, dec.lastPixel, Room(dec))
                    /\ Outcome(d, TRUE).status = "rejected"
    /\ dec.thrown = OffsetOutOfBounds =>
          /\ pc = "rejected"
          /\ dec.pixelOffset = ArrayLength(dec.pixels)

\* C18 witness: in a 3 pixel image a run of 2 has been followed by another
\* run of 2; the three pixels are written and the call has failed
C18_Witness ==
    /\ pc = "rejected"
    /\ file = HeaderOf(3, 1, 3, 1) \o <<193>> \o <<193>>
    /\ dec.thrown = OffsetOutOfBounds
    /\ dec.pixelOffset = 12
    /\ dec.pixels = ArrayOf(<<0, 0, 0, 255, 0, 0, 0, 255, 0, 0, 0, 255>>)

-----------------------------------------------------------------------------
(* The color cache *)

\* every slot of the cache holds (0, 0, 0, 0) or a pixel of its own hash
WellHashed(indexValues) ==
    \A i \in 0..(INDEX_ARRAY_SIZE - 1) :
        LET r == indexValues[4 * i]
            g == indexValues[4 * i + 1]
            b == indexValues[4 * i + 2]
            a == indexValues[4 * i + 3]
        IN \/ (r = 0 /\ g = 0 /\ b = 0 /\ a = 0)
           \/ (r * 3 + g * 5 + b * 7 + a * 11) % 64 = i

\* C19: in every reachable decoder state, and in the state any further byte
\* leads to, each slot i of the color cache holds (0, 0, 0, 0) or a pixel
\* whose hash (R*3 + G*5 + B*7 + A*11) mod 64 is i.
C19_CacheSlotsHashed ==
    /\ WellHashed(dec.indexValues)
    /\ InOpcodes =>
          \A b \in Byte :
              LET d == ProcessByte(dec, b)
              IN d.indexValues = dec.indexValues \/ WellHashed(d.indexValues)

\* C19 witness: the pixels (0, 85, 170, 128) and, after DIFF -2 -2 -2,
\* (254, 83, 168, 128) are stored in slots 15 and 49
C19_Witness ==
    /\ pc = "reading"
    /\ file = HeaderOf(2, 1, 4, 0) \o <<255, 0, 85, 170, 128>> \o <<64>>
    /\ Slot(dec.indexValues, 15) = ArrayOf(<<0, 85, 170, 128>>)
    /\ Slot(dec.indexValues, 49) = ArrayOf(<<254, 83, 168, 128>>)

=============================================================================
